---- MODULE Spec2Model ----
(***************************************************************************)
(* CellTutor (src/celltutor/__init__.py): the Registry (two SQLite tables  *)
(* keyed by an 8-character id), CellAgentBuilder.build_for_cell and the    *)
(* CellAgentRuntime operations explain / get_visuals / ask_question /      *)
(* run_quiz.                                                               *)
(*                                                                         *)
(* Python values are modelled as follows.                                  *)
(*   - str used for matching (answer hints, user answers): a sequence of   *)
(*     one-character strings, so that lower() and `in` are computed;       *)
(*   - other str (ids, names, generated prose): a TLA+ string;             *)
(*   - dict: a record; None returned in place of a dict: the record None;  *)
(*   - a decoded JSON value: a record [kind, items] (see json_loads);      *)
(*   - a raised exception: the field exc of the variable last.             *)
(* Every Registry method opens its own connection and closes it on its     *)
(* last line.  An INSERT that raises skips commit() and close(): the       *)
(* connection keeps its open transaction, and with it the write lock of    *)
(* the database file, until the interpreter collects it.  When that        *)
(* happens is not decided by the code: each later INSERT either still      *)
(* finds the lock (sqlite3.OperationalError, "database is locked") or      *)
(* finds it gone.  SELECT is not blocked by that lock.                     *)
(* The REAL timestamp columns (created_at, ts) and the logger calls take   *)
(* no part in any decision of the code and are left out of the rows.       *)
(***************************************************************************)
EXTENDS Integers, Sequences, FiniteSets, TLC

VARIABLES
    cell_agents,   \* table cell_agents: id -> [cell_index, manifest]
    attempts,      \* table attempts:    id -> [cell_id, quiz_result_json]
    leaked,        \* a connection abandoned by a failed INSERT holds the write lock
    returned,      \* ids handed back by completed Registry.register calls
    last           \* the call that ran last: its arguments and its outcome

vars == <<cell_agents, attempts, leaked, returned, last>>

(***************************************************************************)
(* Bounds.                                                                 *)
(***************************************************************************)
NumIds == 2        \* number of distinct values str(uuid4())[:8] can take
MaxAnswers == 2    \* longest user_answers list handed to run_quiz
MaxRows == 2       \* rows in the two tables together at which the runs stop adding rows

IdNames == <<"0a1b2c3d", "4e5f6a7b", "8c9d0e1f", "deadbeef">>

\* the values gen_id() can return
Ids == {IdNames[i] : i \in 1..NumIds}

\* an id no register call ever produced
UnknownId == "ffffffff"

\* Python None where a dict is expected
None == [none |-> TRUE]

(***************************************************************************)
(* Text as sequences of characters.                                        *)
(***************************************************************************)
UpperAlphabet ==
    <<"A","B","C","D","E","F","G","H","I","J","K","L","M",
      "N","O","P","Q","R","S","T","U","V","W","X","Y","Z">>

LowerAlphabet ==
    <<"a","b","c","d","e","f","g","h","i","j","k","l","m",
      "n","o","p","q","r","s","t","u","v","w","x","y","z">>

LowerTable ==
    [c \in {UpperAlphabet[i] : i \in 1..26} |->
        LowerAlphabet[CHOOSE i \in 1..26 : UpperAlphabet[i] = c]]

\* str.lower() on one character
LowerChar(c) == IF c \in DOMAIN LowerTable THEN LowerTable[c] ELSE c

\* str.lower()
lower(s) == [i \in 1..Len(s) |-> LowerChar(s[i])]

\* the Python test `h in s` on two str
contains(h, s) ==
    \E i \in 0..(Len(s) - Len(h)) : SubSeq(s, i + 1, i + Len(h)) = h

(***************************************************************************)
(* JSON.  A text is [json |-> v] when it is the JSON document of the value *)
(* v and [garbage |-> ...] when it is no JSON document at all.  A decoded  *)
(* value is [kind, items]: kind is the Python type json.loads produces and *)
(* items the elements of a list or the one-character strings of a str.  A  *)
(* dict that is a manifest, a question or a quiz result is a record of its *)
(* keys.                                                                   *)
(***************************************************************************)
PyList(items) == [kind |-> "list", items |-> items]
PyChar(c) == [kind |-> "str", char |-> c]
PyStr(chars) == [kind |-> "str", items |-> [i \in 1..Len(chars) |-> PyChar(chars[i])]]
PyDict == [kind |-> "dict", items |-> <<>>]      \* the empty dict {}
PyInt == [kind |-> "int", items |-> <<>>]
PyNone == [kind |-> "NoneType", items |-> <<>>]

\* json.dumps(v) of a value made of dict, list, str, int, bool and None only
json_dumps(v) == [json |-> v]

\* json.loads(text): the decoded value, or the exception it raises
json_loads(text) ==
    IF "json" \in DOMAIN text
    THEN [exc |-> "none", value |-> text.json]
    ELSE [exc |-> "JSONDecodeError", value |-> PyNone]

(***************************************************************************)
(* Questions and the replies of the TextGenerator to the quiz prompt.      *)
(***************************************************************************)
HintReturnsInt ==
    <<"I","t"," ","r","e","t","u","r","n","s"," ","a","n"," ","i","n","t">>

HintYes == <<"Y","e","s">>

HintDescribe == <<"d","e","s","c","r","i","b","e">>

\* MockLLM.generate on a quiz prompt
MockQuiz ==
    <<[q |-> "What does the function return?", type |-> "short",
       answer_hint |-> HintReturnsInt],
      [q |-> "Is there a loop in the code?", type |-> "mcq",
       options |-> <<"Yes", "No">>, answer_hint |-> HintYes]>>

\* the fallback of build_for_cell
DefaultQuiz ==
    <<[q |-> "What does the code do?", type |-> "short",
       answer_hint |-> HintDescribe]>>

\* a list of questions, one without the key answer_hint and one with ""
OpenQuiz ==
    <<[q |-> "Any remarks?", type |-> "short"],
      [q |-> "Anything else?", type |-> "short", answer_hint |-> <<>>],
      [q |-> "Is there a loop in the code?", type |-> "mcq",
       options |-> <<"Yes", "No">>, answer_hint |-> HintYes]>>

\* GeminiAdapter.generate: "[GeminiAdapter invoked with model=...] <prompt>..."
GeminiReply == [garbage |-> "[GeminiAdapter invoked with model=gemini-pro] ..."]

MockReply == json_dumps(PyList(MockQuiz))
OpenReply == json_dumps(PyList(OpenQuiz))
EmptyListReply == json_dumps(PyList(<<>>))
NullReply == json_dumps(PyNone)                   \* null
ObjectReply == json_dumps(PyDict)                 \* {}
NumberReply == json_dumps(PyInt)                  \* 5
StringReply == json_dumps(PyStr(<<"n","o">>))     \* "no"
BadItemReply == json_dumps(PyList(<<PyInt>>))     \* [5]

\* replies that are JSON lists of question dicts
ListReplies == {MockReply, OpenReply, EmptyListReply}

\* replies that are JSON, but no list of questions
WrongShapeReplies == {NullReply, ObjectReply, NumberReply, StringReply, BadItemReply}

QuizReplies == ListReplies \cup WrongShapeReplies \cup {GeminiReply}

\* a quiz as the data model has it: a list of question dicts
IsQuestionList(quiz) ==
    /\ quiz.kind = "list"
    /\ \A i \in 1..Len(quiz.items) : "q" \in DOMAIN quiz.items[i]

(***************************************************************************)
(* Collaborators.  The TextGenerator answers every prompt but the quiz     *)
(* prompt with prose the core never looks into; its answer to the quiz     *)
(* prompt is an input of build_for_cell (one of QuizReplies).              *)
(***************************************************************************)
\* LLMInterface.generate on a summary, line, visualisation or question prompt
generate(prompt) == <<"reply to">> \o prompt

\* MockVisualizer.make_diagram: the path of the file it writes
make_diagram(cell_id, diagram_text) == <<"agents", cell_id, "_diagram.png">>

\* MockVisualizer.make_animation
make_animation(cell_id, frames_text) == <<"agents", cell_id, "_anim.gif">>

\* uuid4 is a random draw; gen_id keeps its first 8 characters and compares
\* them with nothing.  draw is the value of str(uuid.uuid4())[:8].
gen_id(draw) == draw

(***************************************************************************)
(* Inspector.extract_summary on the code samples of examples/run_demo.py   *)
(* and on a text ast.parse rejects.                                        *)
(***************************************************************************)
CodeFactorial == "def factorial(n): ... for i in range(1, n+1): ..."
CodeGreet == "def greet(name): return f'Hello, {name}'"
CodeBroken == "def (:"

extract_summary(code) ==
    IF code = CodeBroken
    THEN [error |-> "not python or parse error", raw_code |-> code]
    ELSE [functions |-> IF code = CodeFactorial THEN <<"factorial">> ELSE <<"greet">>,
          has_loop |-> (code = CodeFactorial),
          imports |-> <<>>,
          lines |-> <<code>>]

(***************************************************************************)
(* dict helpers.                                                           *)
(***************************************************************************)
\* d[k] = v
dict_set(d, k, v) == [x \in DOMAIN d \cup {k} |-> IF x = k THEN v ELSE d[x]]

\* as has_truthy_id, had the code tested `"id" in manifest`
has_id_key(manifest) == "id" \in DOMAIN manifest

\* `manifest.get("id") or gen_id()`: the id is taken from the manifest when
\* the key is there and its value is a non-empty str
has_truthy_id(manifest) == "id" \in DOMAIN manifest /\ manifest.id # ""

(***************************************************************************)
(* Registry.                                                               *)
(***************************************************************************)
\* as insert_exc, had the statement been INSERT OR REPLACE
insert_or_replace_exc(table, key, collected) ==
    IF leaked /\ ~collected THEN "OperationalError" ELSE "none"

\* cur.execute("INSERT ...") on a fresh connection: the exception it raises.
\* collected tells whether an abandoned connection is gone by now.
insert_exc(table, key, collected) ==
    IF leaked /\ ~collected THEN "OperationalError"
    ELSE IF key \in DOMAIN table THEN "IntegrityError"
    ELSE "none"

\* the table after a committed INSERT
inserted(table, key, row) ==
    [x \in DOMAIN table \cup {key} |-> IF x = key THEN row ELSE table[x]]

\* whether a connection holds the write lock after the INSERT
leaks_after(exc) == exc # "none"

\* Registry.register: the id, the stamped manifest, and either the new table
\* or the exception of the INSERT (id is the PRIMARY KEY)
register(cell_index, manifest, draw, collected) ==
    LET cid == IF has_truthy_id(manifest) THEN manifest.id ELSE gen_id(draw)
        stamped == dict_set(manifest, "id", cid)
        row == [cell_index |-> cell_index, manifest |-> json_dumps(stamped)]
        exc == insert_exc(cell_agents, cid, collected)
    IN  [exc |-> exc, cid |-> cid, manifest |-> stamped,
         rows |-> IF exc = "none" THEN inserted(cell_agents, cid, row) ELSE cell_agents,
         leaked |-> leaks_after(exc)]

\* the id is a key of cell_agents
Registered(cell_id) == cell_id \in DOMAIN cell_agents

\* Registry.get_manifest: SELECT manifest FROM cell_agents WHERE id=?
get_manifest(cell_id) ==
    IF cell_id \in DOMAIN cell_agents
    THEN json_loads(cell_agents[cell_id].manifest).value
    ELSE None

\* Registry.store_attempt
store_attempt(cell_id, result, draw, collected) ==
    LET aid == gen_id(draw)
        row == [cell_id |-> cell_id, quiz_result_json |-> json_dumps(result)]
        exc == insert_exc(attempts, aid, collected)
    IN  [exc |-> exc, aid |-> aid,
         rows |-> IF exc = "none" THEN inserted(attempts, aid, row) ELSE attempts,
         leaked |-> leaks_after(exc)]

(***************************************************************************)
(* The outcome of a call, as recorded in last.                             *)
(***************************************************************************)
Ret(x) == [value |-> x]          \* the call returned x
Raised == [raised |-> TRUE]      \* the call raised last.exc and returned nothing

Outcome(op, cell_id, args, exc, ret, llm_calls) ==
    [op |-> op, cell_id |-> cell_id, args |-> args, exc |-> exc,
     ret |-> IF exc = "none" THEN Ret(ret) ELSE Raised, llm_calls |-> llm_calls]

EmptyTable == [x \in {} |-> None]

Init ==
    /\ cell_agents = EmptyTable
    /\ attempts = EmptyTable
    /\ leaked = FALSE
    /\ returned = {}
    /\ last = Outcome("init", "", None, "none", None, 0)

(***************************************************************************)
(* Registry operations called directly.                                    *)
(***************************************************************************)
Register(cell_index, manifest, draw, collected) ==
    LET r == register(cell_index, manifest, draw, collected)
    IN  /\ cell_agents' = r.rows
        /\ leaked' = r.leaked
        /\ returned' = IF r.exc = "none" THEN returned \cup {r.cid} ELSE returned
        /\ last' = Outcome("register", r.cid, manifest, r.exc, r.cid, 0)
        /\ UNCHANGED attempts

GetManifest(cell_id) ==
    /\ last' = Outcome("get_manifest", cell_id, None, "none", get_manifest(cell_id), 0)
    /\ UNCHANGED <<cell_agents, attempts, leaked, returned>>

StoreAttempt(cell_id, result, draw, collected) ==
    LET r == store_attempt(cell_id, result, draw, collected)
    IN  /\ attempts' = r.rows
        /\ leaked' = r.leaked
        /\ last' = Outcome("store_attempt", cell_id, result, r.exc, r.aid, 0)
        /\ UNCHANGED <<cell_agents, returned>>

(***************************************************************************)
(* CellAgentBuilder.build_for_cell.  quiz_json is what the TextGenerator   *)
(* answers to the quiz prompt; d_draw, a_draw and draw are the three       *)
(* gen_id() results, in the order of the calls; collected as in insert_exc *)
(***************************************************************************)
\* try: quiz = json.loads(quiz_json)  except Exception: quiz = [default]
decode_quiz(quiz_json) ==
    LET d == json_loads(quiz_json)
    IN  IF d.exc = "none" THEN d.value ELSE PyList(DefaultQuiz)

build_manifest(cell_index, code, title, quiz_json, d_draw, a_draw) ==
    LET inspect == extract_summary(code)
        lines == IF "lines" \in DOMAIN inspect THEN inspect.lines ELSE <<>>
        vis_instructions == generate(<<"Visualize", code>>)
        frames == [i \in 1..3 |-> <<"State", i, ": explain variable changes">>]
    IN  [name |-> IF title # "" THEN <<title>> ELSE <<"CellAgent_", cell_index>>,
         cell_index |-> cell_index,
         code_sample |-> code,
         inspection |-> inspect,
         summary |-> generate(<<"Summary", code>>),
         line_by_line |-> generate(<<"Line-by-line">> \o lines),
         diagram |-> make_diagram(gen_id(d_draw), vis_instructions),
         animation |-> make_animation(gen_id(a_draw), frames),
         quiz |-> decode_quiz(quiz_json)]

BuildForCell(cell_index, code, title, quiz_json, d_draw, a_draw, draw, collected) ==
    LET manifest == build_manifest(cell_index, code, title, quiz_json, d_draw, a_draw)
        r == register(cell_index, manifest, draw, collected)
    IN  /\ cell_agents' = r.rows
        /\ leaked' = r.leaked
        /\ returned' = IF r.exc = "none" THEN returned \cup {r.cid} ELSE returned
        /\ last' = Outcome("build_for_cell", r.cid, quiz_json, r.exc, r.manifest, 4)
        /\ UNCHANGED attempts

(***************************************************************************)
(* CellAgentRuntime.  Each operator is the call up to its return or raise. *)
(***************************************************************************)
\* d.get(k): the value, or Python None
dict_get(d, k) == IF k \in DOMAIN d THEN d[k] ELSE PyNone

explain(cell_id, depth) ==
    LET manifest == get_manifest(cell_id)
    IN  IF manifest = None
        THEN [exc |-> "ValueError", ret |-> None]      \* "Cell agent not found"
        ELSE IF depth = "summary"
        THEN IF "summary" \in DOMAIN manifest
             THEN [exc |-> "none", ret |-> manifest.summary]
             ELSE [exc |-> "KeyError", ret |-> None]
        ELSE IF depth = "line"
        THEN IF "line_by_line" \in DOMAIN manifest
             THEN [exc |-> "none", ret |-> manifest.line_by_line]
             ELSE [exc |-> "KeyError", ret |-> None]
        ELSE [exc |-> "none", ret |-> dict_get(manifest, "summary")]

\* m.get(...) on the result of get_manifest, with no test for None
get_visuals(cell_id) ==
    LET m == get_manifest(cell_id)
    IN  IF m = None
        THEN [exc |-> "AttributeError", ret |-> None]
        ELSE [exc |-> "none",
              ret |-> [diagram |-> dict_get(m, "diagram"),
                       animation |-> dict_get(m, "animation")]]

\* m["code_sample"] on the result of get_manifest, with no test for None
ask_question(cell_id, user_question) ==
    LET m == get_manifest(cell_id)
    IN  IF m = None
        THEN [exc |-> "TypeError", ret |-> None, llm_calls |-> 0]
        ELSE IF "code_sample" \notin DOMAIN m
        THEN [exc |-> "KeyError", ret |-> None, llm_calls |-> 0]
        ELSE [exc |-> "none", llm_calls |-> 1,
              ret |-> generate(<<"User question", user_question, m.code_sample>>)]

(***************************************************************************)
(* run_quiz: Python's len() and [] on whatever json.loads made of the quiz *)
(***************************************************************************)
\* len(quiz)
py_len(quiz) ==
    IF quiz.kind \in {"int", "NoneType"}
    THEN [exc |-> "TypeError", value |-> 0]
    ELSE [exc |-> "none", value |-> Len(quiz.items)]

\* quiz[idx]: lists and str count negative indices from the end
py_getitem(quiz, idx) ==
    LET n == Len(quiz.items)
    IN  IF quiz.kind = "dict"
        THEN [exc |-> "KeyError", value |-> None]
        ELSE IF idx >= n \/ idx < 0 - n
        THEN [exc |-> "IndexError", value |-> None]
        ELSE [exc |-> "none",
              value |-> quiz.items[IF idx >= 0 THEN idx + 1 ELSE n + idx + 1]]

\* as is_correct, had the user's answer not been lowercased
is_correct_case_sensitive(expected_hint, user_ans) ==
    IF expected_hint # <<>> THEN contains(expected_hint, user_ans) ELSE TRUE

\* correct = expected_hint in user_ans.lower() if expected_hint else True
is_correct(expected_hint, user_ans) ==
    IF expected_hint # <<>> THEN contains(expected_hint, lower(user_ans)) ELSE TRUE

\* one pass of the loop body of run_quiz
grade_answer(quiz, ans) ==
    LET idx == ans.q_index
        user_ans == ans.answer
        n == py_len(quiz)
        item == py_getitem(quiz, idx)
        is_dict == "kind" \notin DOMAIN item.value \/ item.value.kind = "dict"
        hint == IF "answer_hint" \in DOMAIN item.value
                THEN item.value.answer_hint ELSE <<>>
        expected_hint == IF idx < n.value THEN lower(hint) ELSE <<>>
        correct == is_correct(expected_hint, user_ans)
        exc == IF n.exc # "none" THEN n.exc
               ELSE IF idx >= n.value THEN "none"
               ELSE IF item.exc # "none" THEN item.exc
               ELSE IF ~is_dict THEN "AttributeError"
               ELSE "none"
    IN  IF exc # "none"
        THEN [exc |-> exc, result |-> None]
        ELSE [exc |-> "none",
              result |-> [index |-> idx, user_answer |-> user_ans, correct |-> correct]]

\* the number of results with r["correct"]
RECURSIVE count_correct(_)
count_correct(results) ==
    IF results = <<>> THEN 0
    ELSE (IF Head(results).correct THEN 1 ELSE 0) + count_correct(Tail(results))

\* the loop of run_quiz and the summary: the first exception ends the call
grade_all(quiz, user_answers) ==
    LET graded == [i \in 1..Len(user_answers) |-> grade_answer(quiz, user_answers[i])]
        raising == {i \in 1..Len(user_answers) : graded[i].exc # "none"}
        first == CHOOSE i \in raising : \A j \in raising : i <= j
        results == [i \in 1..Len(user_answers) |-> graded[i].result]
    IN  IF raising # {}
        THEN [exc |-> graded[first].exc, summary |-> None]
        ELSE [exc |-> "none",
              summary |-> [score |-> count_correct(results),
                           total |-> Len(results), details |-> results]]

\* as grade_quiz, had the code read the quiz of `manifest or {}`
grade_quiz_of_missing(manifest, user_answers) ==
    grade_all(IF "quiz" \in DOMAIN manifest THEN manifest.quiz ELSE PyList(<<>>),
              user_answers)

\* run_quiz up to the call of store_attempt: manifest.get("quiz", []) raises
\* AttributeError on None
grade_quiz(manifest, user_answers) ==
    IF manifest = None
    THEN [exc |-> "AttributeError", summary |-> None]
    ELSE grade_all(IF "quiz" \in DOMAIN manifest THEN manifest.quiz ELSE PyList(<<>>),
                   user_answers)

run_quiz(cell_id, user_answers, draw, collected) ==
    LET g == grade_quiz(get_manifest(cell_id), user_answers)
        w == store_attempt(cell_id, g.summary, draw, collected)
    IN  IF g.exc # "none"
        THEN [exc |-> g.exc, ret |-> None, rows |-> attempts, leaked |-> leaked]
        ELSE [exc |-> w.exc, ret |-> g.summary, rows |-> w.rows, leaked |-> w.leaked]

Explain(cell_id, depth) ==
    LET r == explain(cell_id, depth)
    IN  /\ last' = Outcome("explain", cell_id, depth, r.exc, r.ret, 0)
        /\ UNCHANGED <<cell_agents, attempts, leaked, returned>>

GetVisuals(cell_id) ==
    LET r == get_visuals(cell_id)
    IN  /\ last' = Outcome("get_visuals", cell_id, None, r.exc, r.ret, 0)
        /\ UNCHANGED <<cell_agents, attempts, leaked, returned>>

AskQuestion(cell_id, user_question) ==
    LET r == ask_question(cell_id, user_question)
    IN  /\ last' = Outcome("ask_question", cell_id, user_question, r.exc, r.ret, r.llm_calls)
        /\ UNCHANGED <<cell_agents, attempts, leaked, returned>>

RunQuiz(cell_id, user_answers, draw, collected) ==
    LET r == run_quiz(cell_id, user_answers, draw, collected)
    IN  /\ attempts' = r.rows
        /\ leaked' = r.leaked
        /\ last' = Outcome("run_quiz", cell_id, user_answers, r.exc, r.ret, 0)
        /\ UNCHANGED <<cell_agents, returned>>

(***************************************************************************)
(* Inputs.                                                                 *)
(***************************************************************************)
AnsYES == <<"Y","E","S">>
AnsReturnsInt ==
    <<"i","t"," ","R","E","T","U","R","N","S"," ","a","n"," ","i","n","t","!">>

\* each contains one hint of MockQuiz in another case and not the other hint
AnswerTexts == {AnsYES, AnsReturnsInt}

\* q_index values: below every quiz, counted from the end, in range, beyond
QIndexes == {-4, -1, 0, 1, 3}

Answers == [q_index : QIndexes, answer : AnswerTexts]

RECURSIVE ListsUpTo(_, _)
ListsUpTo(S, n) ==
    IF n = 0 THEN {<<>>}
    ELSE LET shorter == ListsUpTo(S, n - 1)
         IN  shorter \cup {Append(l, x) : l \in shorter, x \in S}

AnswerLists == ListsUpTo(Answers, MaxAnswers)

\* the answer lists of the runs that interleave all operations
FewAnswerLists ==
    {<<[q_index |-> 0, answer |-> AnsReturnsInt], [q_index |-> 1, answer |-> AnsYES]>>,
     <<[q_index |-> -4, answer |-> AnsYES]>>}

CellIds == Ids \cup {UnknownId}

\* manifests handed to Registry.register directly
DirectManifests ==
    {[name |-> <<"direct">>],
     [name |-> <<"direct">>, id |-> ""],
     [name |-> <<"direct">>, id |-> IdNames[1]]}

SomeResult == [score |-> 0, total |-> 0, details |-> <<>>]

FewReplies == {MockReply, NullReply}

\* whether the collector has closed an abandoned connection by the time of a
\* call: either, when there is one
Collected == IF leaked THEN BOOLEAN ELSE {FALSE}

\* the runs add rows while the tables hold < MaxRows rows; calls that add no
\* row (they raise) go on after that
HasRoom == Cardinality(DOMAIN cell_agents) + Cardinality(DOMAIN attempts) < MaxRows

(***************************************************************************)
(* Spec: every operation of the Registry, the builder and the runtime.     *)
(***************************************************************************)
DoRegister ==
    \E m \in DirectManifests, draw \in Ids, collected \in Collected :
        /\ HasRoom \/ register(1, m, draw, collected).exc # "none"
        /\ Register(1, m, draw, collected)
DoGetManifest == \E c \in CellIds : GetManifest(c)
DoStoreAttempt ==
    \E draw \in Ids, collected \in Collected :
        /\ HasRoom \/ store_attempt(UnknownId, SomeResult, draw, collected).exc # "none"
        /\ StoreAttempt(UnknownId, SomeResult, draw, collected)
DoBuild ==
    \E q \in FewReplies, draw \in Ids, collected \in Collected :
        /\ HasRoom \/ insert_exc(cell_agents, gen_id(draw), collected) # "none"
        /\ BuildForCell(1, CodeFactorial, "", q, IdNames[1], IdNames[1], draw, collected)
DoExplain == \E c \in CellIds, depth \in {"line", "deep"} : Explain(c, depth)
DoGetVisuals == \E c \in CellIds : GetVisuals(c)
DoAskQuestion == \E c \in CellIds : AskQuestion(c, "What happens when n is 0?")
DoRunQuiz ==
    \E c \in CellIds, a \in FewAnswerLists, draw \in Ids, collected \in Collected :
        /\ HasRoom \/ run_quiz(c, a, draw, collected).exc # "none"
        /\ RunQuiz(c, a, draw, collected)

Next ==
    \/ DoRegister
    \/ DoGetManifest
    \/ DoStoreAttempt
    \/ DoBuild
    \/ DoExplain
    \/ DoGetVisuals
    \/ DoAskQuestion
    \/ DoRunQuiz

Spec == Init /\ [][Next]_vars

(***************************************************************************)
(* SpecRuntime: the builder and the runtime only, as the demo uses them.   *)
(***************************************************************************)
NextRuntime ==
    \/ DoBuild
    \/ DoExplain
    \/ DoGetVisuals
    \/ DoAskQuestion
    \/ DoRunQuiz

SpecRuntime == Init /\ [][NextRuntime]_vars

(***************************************************************************)
(* SpecQuiz: one build with any reply of the TextGenerator, then one call  *)
(* of run_quiz with any answer list.                                       *)
(***************************************************************************)
BuildAny ==
    \E q \in QuizReplies, draw \in Ids :
        /\ cell_agents = EmptyTable
        /\ BuildForCell(1, CodeGreet, "Greet cell", q, IdNames[1], IdNames[1], draw, FALSE)

QuizAny ==
    \E c \in DOMAIN cell_agents \cup {UnknownId}, a \in AnswerLists, draw \in Ids :
        /\ last.op = "build_for_cell"
        /\ RunQuiz(c, a, draw, FALSE)

NextQuiz == BuildAny \/ QuizAny

SpecQuiz == Init /\ [][NextQuiz]_vars

(***************************************************************************)
(* Properties.                                                             *)
(***************************************************************************)
\* the quiz run_quiz reads for a registered id
QuizOf(cell_id) ==
    LET m == get_manifest(cell_id)
    IN  IF "quiz" \in DOMAIN m THEN m.quiz ELSE PyList(<<>>)

\* C1: every id a completed Registry.register call returned is non-empty, and
\* get_manifest with it, after whatever operations followed, finds a payload
\* whose "id" is that id; so does the payload a get_manifest call returned.
C1_RegisterIdReadsBack ==
    /\ \A id \in returned :
          /\ id # ""
          /\ get_manifest(id) # None
          /\ "id" \in DOMAIN get_manifest(id)
          /\ get_manifest(id).id = id
    /\ (last.op = "register" /\ last.exc = "none") => last.ret.value \in returned
    /\ (last.op = "get_manifest" /\ last.cell_id \in returned) =>
          /\ "id" \in DOMAIN last.ret.value
          /\ last.ret.value.id = last.cell_id

\* a registered id is read back after an attempt was stored as well
C1_Witness ==
    /\ last.op = "get_manifest"
    /\ last.cell_id \in returned
    /\ attempts # EmptyTable

\* C2: a register call on a manifest that carries no id assigns an id that is
\* not yet a key of cell_agents; the payload stored under a key holds that key
\* as its "id"; and a stored row never changes.
C2_FreshUniqueIds ==
    [][/\ (\/ last'.op = "build_for_cell"
           \/ last'.op = "register" /\ ~has_truthy_id(last'.args))
          => last'.cell_id \notin DOMAIN cell_agents
       /\ \A id \in DOMAIN cell_agents' :
             json_loads(cell_agents'[id].manifest).value.id = id
       /\ \A id \in DOMAIN cell_agents :
             id \in DOMAIN cell_agents' /\ cell_agents'[id] = cell_agents[id]]_vars

\* C3: explain, ask_question and run_quiz on an id without a manifest all raise
\* the error explain raises, ValueError("Cell agent not found"), without a call
\* of the TextGenerator and without a write.
C3_SameNotFoundError ==
    [][(/\ last'.op \in {"explain", "ask_question", "run_quiz"}
        /\ ~Registered(last'.cell_id))
       => /\ last'.exc = "ValueError"
          /\ last'.llm_calls = 0
          /\ cell_agents' = cell_agents
          /\ attempts' = attempts]_vars

\* C4: a run_quiz call on a registered id returns, and adds exactly one row to
\* attempts: its cell_id is the id, its result is the returned one, and total
\* is len(answers).
C4_OneAttemptPerCall ==
    [][(last'.op = "run_quiz" /\ Registered(last'.cell_id))
       => /\ last'.exc = "none"
          /\ last'.ret.value.total = Len(last'.args)
          /\ \E aid \in DOMAIN attempts' \ DOMAIN attempts :
                /\ DOMAIN attempts' = DOMAIN attempts \cup {aid}
                /\ attempts'[aid].cell_id = last'.cell_id
                /\ json_loads(attempts'[aid].quiz_result_json).value = last'.ret.value
          /\ \A aid \in DOMAIN attempts : attempts'[aid] = attempts[aid]]_vars

\* q_index is no index of the quiz: negative, or at or above its length
OutOfRange(quiz, idx) == idx < 0 \/ idx >= Len(quiz.items)

\* C5: on a quiz that is a list of questions, run_quiz raises no IndexError or
\* KeyError, and every answer whose q_index is out of range is graded correct.
C5_OutOfRangeIsCorrect ==
    (/\ last.op = "run_quiz"
     /\ Registered(last.cell_id)
     /\ IsQuestionList(QuizOf(last.cell_id)))
    => /\ last.exc \notin {"IndexError", "KeyError"}
       /\ last.exc = "none" =>
             \A i \in 1..Len(last.args) :
                OutOfRange(QuizOf(last.cell_id), last.args[i].q_index)
                   => last.ret.value.details[i].correct

\* the reply decodes to a list of questions
DecodesToQuestions(reply) ==
    json_loads(reply).exc = "none" /\ IsQuestionList(json_loads(reply).value)

\* C6: the quiz of a built manifest is a list of questions, the one default
\* question whenever the reply does not decode to a list of questions, and a
\* later run_quiz on the manifest raises no error of a malformed quiz.
C6_QuizIsQuestionList ==
    /\ (last.op = "build_for_cell" /\ last.exc = "none") =>
          /\ IsQuestionList(last.ret.value.quiz)
          /\ ~DecodesToQuestions(last.args) =>
                last.ret.value.quiz = PyList(DefaultQuiz)
    /\ (last.op = "run_quiz" /\ Registered(last.cell_id)) =>
          last.exc \notin {"TypeError", "AttributeError", "KeyError"}

\* C7: the cell_id of every row of attempts is the id of a stored manifest.
C7_AttemptsReferToManifests ==
    \A aid \in DOMAIN attempts : Registered(attempts[aid].cell_id)

\* run_quiz was called with an unknown id on a store that holds an attempt
C7_Witness ==
    /\ last.op = "run_quiz"
    /\ last.cell_id = UnknownId
    /\ last.exc # "none"
    /\ attempts # EmptyTable

\* C8: no step changes or removes a stored manifest row or a stored attempt
\* row, so get_manifest returns the same payload before and after any step.
C8_AppendOnly ==
    [][/\ \A id \in DOMAIN cell_agents :
             /\ id \in DOMAIN cell_agents'
             /\ cell_agents'[id] = cell_agents[id]
             /\ get_manifest(id)' = get_manifest(id)
       /\ \A aid \in DOMAIN attempts :
             /\ aid \in DOMAIN attempts'
             /\ attempts'[aid] = attempts[aid]]_vars

\* register was called with the id of a stored manifest, next to an attempt
C8_Witness ==
    /\ last.op = "register"
    /\ has_truthy_id(last.args)
    /\ last.exc = "IntegrityError"
    /\ attempts # EmptyTable

\* C9: get_visuals on an id without a manifest returns a structure whose two
\* fields are None.
C9_VisualsOfUnknownId ==
    (last.op = "get_visuals" /\ ~Registered(last.cell_id))
    => /\ last.exc = "none"
       /\ last.ret = Ret([diagram |-> PyNone, animation |-> PyNone])

\* every q_index is an index of the quiz
AllInRange(quiz, user_answers) ==
    \A i \in 1..Len(user_answers) : ~OutOfRange(quiz, user_answers[i].q_index)

\* the rule of the specification for one answer to one question
GradedCorrect(question, answer) ==
    \/ "answer_hint" \notin DOMAIN question
    \/ question.answer_hint = <<>>
    \/ contains(lower(question.answer_hint), lower(answer))

\* C10: on a quiz that is a list of questions and answers that are all in
\* range, run_quiz (storing into an empty attempts table) returns; details has
\* one entry per answer, in input order, correct exactly by the rule; score is
\* the number of correct entries and total the number of answers.
C10_GradingRule ==
    (/\ last.op = "run_quiz"
     /\ Registered(last.cell_id)
     /\ IsQuestionList(QuizOf(last.cell_id))
     /\ AllInRange(QuizOf(last.cell_id), last.args))
    => /\ last.exc = "none"
       /\ LET quiz == QuizOf(last.cell_id)
              answers == last.args
              summary == last.ret.value
          IN  /\ Len(summary.details) = Len(answers)
              /\ summary.total = Len(answers)
              /\ \A i \in 1..Len(answers) :
                    /\ summary.details[i].index = answers[i].q_index
                    /\ summary.details[i].user_answer = answers[i].answer
                    /\ summary.details[i].correct
                          <=> GradedCorrect(quiz.items[answers[i].q_index + 1],
                                            answers[i].answer)
              /\ summary.score =
                    Cardinality({i \in 1..Len(answers) : summary.details[i].correct})

\* the scenario of the specification: one answer holds the hint of question 0
\* in another case, the other misses the hint of question 1
C10_Witness ==
    /\ last.op = "run_quiz"
    /\ Registered(last.cell_id)
    /\ QuizOf(last.cell_id) = PyList(MockQuiz)
    /\ last.args = <<[q_index |-> 0, answer |-> AnsReturnsInt],
                     [q_index |-> 1, answer |-> AnsReturnsInt]>>
    /\ last.exc = "none"
    /\ last.ret.value.score = 1
    /\ last.ret.value.total = 2

====
